---- MODULE Spec2Model ----
(***************************************************************************)
(* The tunnel relay of simple_vpn_client.c and simple_vpn_server.c: two    *)
(* processes, each owning a TUN handle and one TCP connection to the       *)
(* other, moving packets between the two with a one-byte XOR cipher and a  *)
(* 2-byte big-endian length prefix.                                        *)
(*                                                                         *)
(* Spec       the two processes from main() to exit, one action per system *)
(*            call of main() and vpn_event_loop().                         *)
(* SpecCipher xor_crypt applied once and twice to a buffer.                *)
(* SpecFrame  one packet through the whole send path and receive path of   *)
(*            vpn_event_loop with the stream delivered in one piece.       *)
(***************************************************************************)
EXTENDS Integers, Sequences, FiniteSets, TLC

\* ------------------------------------------------------------------ bounds
\* Longest packet the interface hands over in Spec.
MaxLen == 2
\* Packets the two processes read from their interfaces in one run of Spec.
MaxPkts == 3
\* Longest buffer of SpecCipher over the sample bytes.
CipherMaxLen == 2
\* Byte patterns of the packets of SpecFrame.
FrameSeeds == 4
\* System calls the environment makes fail or write short in one run of Spec.
MaxFaults == 1
\* Connections other hosts attempt to the server's port in one run of SpecPeers.
MaxForeign == 1
\* Bytes the transport holds in one direction in SpecBounded (send and receive buffer).
TransportCap == 3

\* ------------------------------------------------------- program constants
BUFFER_SIZE == 2048
XOR_KEY == 66
\* uint16_t: the width of packet_len.
U16 == 65536
\* unsigned char: the width of one buffer element.
U8 == 256

E == {"client", "server"}
Peer(e) == IF e = "client" THEN "server" ELSE "client"
H == {"tun", "sock", "listen"}
FaultKinds == {"error", "short_write"}

\* What the second byte of packet_len may hold when read() filled only the first.
GarbageBytes == {0, 255}

Min(a, b) == IF a < b THEN a ELSE b

RECURSIVE SeqsUpTo(_, _)
SeqsUpTo(S, n) ==
  IF n = 0 THEN {<<>>}
  ELSE LET shorter == SeqsUpTo(S, n - 1)
       IN  shorter \cup {Append(s, b) : s \in {t \in shorter : Len(t) = n - 1}, b \in S}

\* The packets an interface hands over in Spec: the empty one and the longest one,
\* its bytes 66, 1, 66, ... (the key maps 66 to 0 and 1 to 67).
PacketOfLen(n) == [i \in 1..n |-> IF i % 2 = 1 THEN 66 ELSE 1]
Packets == {PacketOfLen(n) : n \in {0, MaxLen}}

Take(s, k) == SubSeq(s, 1, k)
Drop(s, k) == SubSeq(s, k + 1, Len(s))

\* ------------------------------------------------------------------ cipher
RECURSIVE XorBits(_, _, _)
XorBits(a, b, n) ==
  IF n = 0 THEN 0
  ELSE (((a % 2) + (b % 2)) % 2) + 2 * XorBits(a \div 2, b \div 2, n - 1)

\* data[i] ^= key on unsigned char.
XorByte(a, key) == XorBits(a % U8, key % U8, 8)

\* xor_crypt with += in place of ^=.
xor_crypt_add(data, len, key) ==
  [i \in 1..Len(data) |-> IF i <= len THEN (data[i] + key) % U8 ELSE data[i]]

\* xor_crypt that runs over the whole buffer whatever len is.
xor_crypt_all(data, len, key) ==
  [i \in 1..Len(data) |-> XorByte(data[i], key)]

\* for (i = 0; i < len; i++) data[i] ^= key; the bytes from len on stay.
xor_crypt(data, len, key) ==
  [i \in 1..Len(data) |-> IF i <= len THEN XorByte(data[i], key) ELSE data[i]]

\* ----------------------------------------------------------------- framing
\* uint16_t packet_len = htons(nread): the two bytes as they lie in memory.
htons(n) == <<((n % U16) \div U8), (n % U16) % U8>>
\* ntohs of the two bytes of packet_len as they lie in memory.
ntohs(b) == b[1] * U8 + b[2]

VARIABLES
  pc,          \* where each process is in main() / vpn_event_loop()
  nopen,       \* per process and handle: open()/socket()/accept() that succeeded
  nclose,      \* per process and handle: close() calls
  exitStatus,  \* -1, then the status main() exits with once that is decided
  conn,        \* the client's connect() has succeeded
  ready,       \* read_fds as select() left it
  buffer,      \* buffer[0 .. nread)
  nread,
  packet_len,
  tunIn,       \* history: what each read(tun_fd) returned, in order
  tunOut,      \* history: what each write(tun_fd) wrote, and from which stream offset it came
  sent,        \* history: every byte a process put on the transport
  consumed,    \* how many bytes a process has read from the transport
  exitCause,   \* which break left the loop
  faults,      \* how often a system call has failed ("error") or written short ("short_write")
  cin, clen, ckey, cbuf, cstage,   \* SpecCipher: xor_crypt(cin, clen, ckey), once and twice
  fpkt,        \* SpecFrame: length and seed of the packet on the sender's interface
  fstage,
  fbuf,        \* buffer[0 .. nread) of the process at work
  fnread,
  fstream,     \* the bytes on the transport
  flen,        \* the receiver's packet_len
  fenc,        \* history: what the sender framed
  fout,        \* what the receiver wrote to its interface
  fresult,     \* how the receiver's pass of the loop ended
  foreign,     \* SpecPeers: connections of other hosts to the server's port, queued or refused
  rx,          \* SpecRecv: one pass of the transport branch over an arbitrary stream
  wdone,       \* SpecBounded: bytes the write() a process is blocked in has already queued
  loops        \* SpecRoles: the two vpn_event_loop functions run side by side

engineVars == <<pc, nopen, nclose, exitStatus, conn, ready, buffer, nread, packet_len,
                tunIn, tunOut, sent, consumed, exitCause, faults>>
cipherVars == <<cin, clen, ckey, cbuf, cstage>>
frameVars == <<fpkt, fstage, fbuf, fnread, fstream, flen, fenc, fout, fresult>>
\* What an action of the two processes leaves alone.
otherVars == <<cipherVars, frameVars, foreign, rx, wdone, loops>>
vars == <<engineVars, cipherVars, frameVars, foreign, rx, wdone, loops>>

\* The bytes written towards e and not yet read by it.
wire(e) == Drop(sent[Peer(e)], consumed[e])

\* The other end of e's connection is closed: read() returns 0 once the wire is drained.
PeerGone(e) ==
  IF e = "client"
  THEN nclose["server"]["sock"] >= 1 \/ pc["server"] = "killed"
       \/ (nopen["server"]["sock"] = 0 /\ nclose["server"]["listen"] >= 1)
  ELSE nclose["client"]["sock"] >= 1 \/ pc["client"] = "killed"

\* The peer's end is closed and e has sent bytes the peer never read: the peer's
\* kernel answers them with a reset, after which a write() on e's end raises SIGPIPE.
PeerReset(e) ==
  /\ nclose[Peer(e)]["sock"] >= 1 \/ pc[Peer(e)] = "killed"
  /\ Len(sent[e]) > consumed[Peer(e)]

SockReadable(e) == wire(e) # <<>> \/ PeerGone(e)

Listening == nopen["server"]["listen"] = 1 /\ nclose["server"]["listen"] = 0

EngineInit ==
  /\ pc = [e \in E |-> IF e = "client" THEN "args" ELSE "create_tun"]
  /\ nopen = [e \in E |-> [h \in H |-> 0]]
  /\ nclose = [e \in E |-> [h \in H |-> 0]]
  /\ exitStatus = [e \in E |-> -1]
  /\ conn = FALSE
  /\ ready = [e \in E |-> [tun |-> FALSE, sock |-> FALSE]]
  /\ buffer = [e \in E |-> <<>>]
  /\ nread = [e \in E |-> 0]
  /\ packet_len = [e \in E |-> 0]
  /\ tunIn = [e \in E |-> <<>>]
  /\ tunOut = [e \in E |-> <<>>]
  /\ sent = [e \in E |-> <<>>]
  /\ consumed = [e \in E |-> 0]
  /\ exitCause = [e \in E |-> "none"]
  /\ faults = [k \in FaultKinds |-> 0]
  /\ foreign = [queued |-> 0, refused |-> 0]
  /\ wdone = [e \in E |-> 0]

CipherIdle == cin = <<>> /\ clen = 0 /\ ckey = 0 /\ cbuf = <<>> /\ cstage = "off"
FrameIdle ==
  /\ fpkt = [len |-> 0, seed |-> 0] /\ fstage = "off" /\ fbuf = <<>> /\ fnread = 0 /\ fstream = <<>>
  /\ flen = 0 /\ fenc = <<>> /\ fout = <<>> /\ fresult = "none"

RecvIdle ==
  rx = [stage |-> "off", prefix |-> <<0, 0>>, avail |-> 0, packet_len |-> 0,
        nread |-> 0, stored |-> 0, result |-> "none"]

\* The locals of one vpn_event_loop and the system call it made last.
LoopLocals(at) ==
  [pc |-> at, ready |-> [tun |-> FALSE, sock |-> FALSE], buffer |-> <<>>, nread |-> 0,
   packet_len |-> 0, op |-> [call |-> "none", fd |-> "none", bytes |-> <<>>]]
LoopsIdle == loops = [e \in E |-> LoopLocals("off")]

Init == EngineInit /\ CipherIdle /\ FrameIdle /\ RecvIdle /\ LoopsIdle

\* The environment makes a system call fail or write short: at most MaxFaults times a run.
NFaults == faults["error"] + faults["short_write"]
Fault(kind) ==
  /\ NFaults < MaxFaults
  /\ faults' = [faults EXCEPT ![kind] = @ + 1]

loopVars == <<ready, buffer, nread, packet_len, tunIn, tunOut, sent, consumed, exitCause>>

\* ------------------------------------------------------------ main(): setup
\* An exit that reports success whatever happened.
ExitClosingZero(e, hs, status) ==
  /\ nclose' = [nclose EXCEPT ![e] = [h \in H |-> IF h \in hs THEN @[h] + 1 ELSE @[h]]]
  /\ pc' = [pc EXCEPT ![e] = "exited"]
  /\ exitStatus' = [exitStatus EXCEPT ![e] = 0]

\* exit(status) or return status, after close() of the handles in hs.
ExitClosing(e, hs, status) ==
  /\ nclose' = [nclose EXCEPT ![e] = [h \in H |-> IF h \in hs THEN @[h] + 1 ELSE @[h]]]
  /\ pc' = [pc EXCEPT ![e] = "exited"]
  /\ exitStatus' = [exitStatus EXCEPT ![e] = status]

Opened(e, h) == [nopen EXCEPT ![e][h] = @ + 1]

\* client main: if (argc != 2) { print_usage(); exit(1); }
CheckArgs(e) ==
  /\ e = "client" /\ pc[e] = "args"
  /\ UNCHANGED otherVars
  /\ \/ /\ pc' = [pc EXCEPT ![e] = "create_tun"]
        /\ UNCHANGED <<nclose, exitStatus, faults>>
     \/ /\ ExitClosing(e, {}, 1)
        /\ Fault("error")
  /\ UNCHANGED <<nopen, conn, loopVars>>

\* create_tun_device and main's test of its result.
create_tun_device(e) ==
  /\ pc[e] = "create_tun"
  /\ UNCHANGED otherVars
  /\ \/ /\ nopen' = Opened(e, "tun")
        /\ pc' = [pc EXCEPT ![e] = IF e = "client" THEN "connect" ELSE "create_sock"]
        /\ UNCHANGED <<nclose, exitStatus, faults>>
     \/ \* open() failed: return -1, exit(1)
        /\ ExitClosing(e, {}, 1)
        /\ Fault("error")
        /\ UNCHANGED nopen
     \/ \* ioctl(TUNSETIFF) failed: close(tun_fd); return -1, exit(1)
        /\ nopen' = Opened(e, "tun")
        /\ ExitClosing(e, {"tun"}, 1)
        /\ Fault("error")
  /\ UNCHANGED <<conn, loopVars>>

connect_to_server_unchecked(e) ==
  /\ e = "client" /\ pc[e] = "connect"
  /\ UNCHANGED otherVars
  /\ \/ /\ Listening
        /\ nopen' = Opened(e, "sock")
        /\ conn' = TRUE
        /\ pc' = [pc EXCEPT ![e] = "select"]
        /\ UNCHANGED <<nclose, exitStatus, faults>>
     \/ /\ pc' = [pc EXCEPT ![e] = "select"]
        /\ Fault("error")
        /\ UNCHANGED <<nopen, nclose, exitStatus, conn>>
  /\ UNCHANGED loopVars

\* connect_to_server and main's test of its result: on -1, close(tun_fd); exit(1).
connect_to_server(e) ==
  /\ e = "client" /\ pc[e] = "connect"
  /\ UNCHANGED otherVars
  /\ \/ \* connected: the server is listening
        /\ Listening
        /\ nopen' = Opened(e, "sock")
        /\ conn' = TRUE
        /\ pc' = [pc EXCEPT ![e] = "select"]
        /\ UNCHANGED <<nclose, exitStatus, faults>>
     \/ \* socket() failed
        /\ ExitClosing(e, {"tun"}, 1)
        /\ Fault("error")
        /\ UNCHANGED <<nopen, conn>>
     \/ \* inet_pton or connect failed: close(sock_fd); return -1
        /\ nopen' = Opened(e, "sock")
        /\ ExitClosing(e, {"sock", "tun"}, 1)
        /\ Fault("error")
        /\ UNCHANGED conn
  /\ UNCHANGED loopVars

\* create_server_socket and main's test of its result: on -1, close(tun_fd); exit(1).
create_server_socket(e) ==
  /\ e = "server" /\ pc[e] = "create_sock"
  /\ UNCHANGED otherVars
  /\ \/ /\ nopen' = Opened(e, "listen")
        /\ pc' = [pc EXCEPT ![e] = "accept"]
        /\ UNCHANGED <<nclose, exitStatus, faults>>
     \/ \* socket() failed
        /\ ExitClosing(e, {"tun"}, 1)
        /\ Fault("error")
        /\ UNCHANGED nopen
     \/ \* bind or listen failed: close(sock_fd); return -1
        /\ nopen' = Opened(e, "listen")
        /\ ExitClosing(e, {"listen", "tun"}, 1)
        /\ Fault("error")
  /\ UNCHANGED <<conn, loopVars>>

\* accept() whose failure path leaves out close(server_fd).
AcceptLeaking(e) ==
  /\ e = "server" /\ pc[e] = "accept"
  /\ UNCHANGED otherVars
  /\ \/ /\ conn
        /\ nopen' = Opened(e, "sock")
        /\ pc' = [pc EXCEPT ![e] = "select"]
        /\ UNCHANGED <<nclose, exitStatus, faults>>
     \/ /\ ExitClosing(e, {"tun"}, 1)
        /\ Fault("error")
        /\ UNCHANGED nopen
  /\ UNCHANGED <<conn, loopVars>>

\* accept() in the server's main: blocks until a connection is there.
Accept(e) ==
  /\ e = "server" /\ pc[e] = "accept"
  /\ UNCHANGED otherVars
  /\ \/ /\ conn
        /\ nopen' = Opened(e, "sock")
        /\ pc' = [pc EXCEPT ![e] = "select"]
        /\ UNCHANGED <<nclose, exitStatus, faults>>
     \/ \* accept failed: close(server_fd); close(tun_fd); exit(1)
        /\ ExitClosing(e, {"listen", "tun"}, 1)
        /\ Fault("error")
        /\ UNCHANGED nopen
  /\ UNCHANGED <<conn, loopVars>>

\* -------------------------------------------------------- vpn_event_loop()
\* The locals of vpn_event_loop. A local is kept only while the code can still read
\* it: the next pass of while (1) starts with FD_ZERO(&read_fds), packet_len is a new
\* uninitialised object of its block, and nread and buffer[0 .. nread) are written by
\* the next read() before they are used.
NoFds == [tun |-> FALSE, sock |-> FALSE]
Locals(e, fds, buf, n, plen) ==
  /\ ready' = [ready EXCEPT ![e] = fds]
  /\ buffer' = [buffer EXCEPT ![e] = buf]
  /\ nread' = [nread EXCEPT ![e] = n]
  /\ packet_len' = [packet_len EXCEPT ![e] = plen]
DeadLocals(e) == Locals(e, NoFds, <<>>, 0, 0)

\* A break that goes on with the next pass of the loop.
BreakIgnored(e, cause) ==
  /\ pc' = [pc EXCEPT ![e] = "select"]
  /\ exitCause' = [exitCause EXCEPT ![e] = cause]
  /\ DeadLocals(e)

\* break: the loop is left and vpn_event_loop returns to main's cleanup.
Break(e, cause) ==
  /\ pc' = [pc EXCEPT ![e] = "cleanup"]
  /\ exitCause' = [exitCause EXCEPT ![e] = cause]
  /\ DeadLocals(e)

\* SIGPIPE, whose disposition main leaves at the default: the process is terminated
\* inside write(), and none of main's close() calls runs.
Killed(e) ==
  /\ pc' = [pc EXCEPT ![e] = "killed"]
  /\ exitCause' = [exitCause EXCEPT ![e] = "sigpipe"]
  /\ DeadLocals(e)

\* A write that puts its bytes in front of the stream.
SockWriteFront(e, bytes, k) == [sent EXCEPT ![e] = Take(bytes, k) \o @]

\* write(fd, bytes, count) on the transport accepting k bytes.
SockWrite(e, bytes, k) == [sent EXCEPT ![e] = @ \o Take(bytes, k)]

\* Packets the two interfaces have handed over so far.
NPkts == Len(tunIn["client"]) + Len(tunIn["server"])

\* read(tun_fd, buffer, BUFFER_SIZE): the interface hands over one packet per read,
\* cut to the size asked for.
TunReadResultWhole(p) == p

TunReadResult(p) == Take(p, Min(Len(p), BUFFER_SIZE))

\* select(max_fd + 1, &read_fds, NULL, NULL, NULL), which returns with every
\* descriptor that is readable at that moment, and, if (FD_ISSET(tun_fd, &read_fds)),
\* nread = read(tun_fd, buffer, BUFFER_SIZE); xor_crypt(buffer, nread, XOR_KEY).
Select(e) ==
  /\ pc[e] = "select"
  /\ UNCHANGED otherVars
  /\ \/ \* only the transport is readable
        /\ SockReadable(e)
        /\ Locals(e, [tun |-> FALSE, sock |-> TRUE], <<>>, 0, 0)
        /\ pc' = [pc EXCEPT ![e] = "sock_read_len"]
        /\ UNCHANGED <<tunIn, exitCause, faults>>
     \/ \* the interface is readable
        /\ NPkts < MaxPkts
        /\ \E p \in Packets :
             /\ tunIn' = [tunIn EXCEPT ![e] = Append(@, p)]
             /\ Locals(e, [tun |-> TRUE, sock |-> SockReadable(e)],
                       xor_crypt(TunReadResult(p), Len(TunReadResult(p)), XOR_KEY),
                       Len(TunReadResult(p)), 0)
        /\ pc' = [pc EXCEPT ![e] = "write_len"]
        /\ UNCHANGED <<exitCause, faults>>
     \/ \* select: ret < 0
        /\ Break(e, "select")
        /\ Fault("error")
        /\ UNCHANGED tunIn
     \/ \* the interface is readable and read(tun_fd): nread < 0
        /\ NPkts < MaxPkts
        /\ Break(e, "tun_read")
        /\ Fault("error")
        /\ UNCHANGED tunIn
  /\ UNCHANGED <<nopen, nclose, exitStatus, conn, tunOut, sent, consumed>>

\* uint16_t packet_len = htons(nread); write(server_fd, &packet_len, sizeof(packet_len)).
\* Only a result < 0 is tested: a write that took one byte goes on like a full one.
WriteLen(e) ==
  /\ pc[e] = "write_len"
  /\ UNCHANGED otherVars
  /\ \/ /\ sent' = SockWrite(e, htons(nread[e]), 2)
        /\ pc' = [pc EXCEPT ![e] = "write_payload"]
        /\ UNCHANGED <<faults, exitCause, ready, buffer, nread, packet_len>>
     \/ /\ sent' = SockWrite(e, htons(nread[e]), 1)
        /\ pc' = [pc EXCEPT ![e] = "write_payload"]
        /\ Fault("short_write")
        /\ UNCHANGED <<exitCause, ready, buffer, nread, packet_len>>
     \/ \* write < 0
        /\ Break(e, "write_len")
        /\ Fault("error")
        /\ UNCHANGED sent
     \/ /\ PeerReset(e)
        /\ Killed(e)
        /\ UNCHANGED <<sent, faults>>
  /\ UNCHANGED <<nopen, nclose, exitStatus, conn, tunIn, tunOut, consumed>>

\* After the interface branch: if (FD_ISSET(server_fd, &read_fds)), else the next select.
AfterTunBranchSelect(e) == "select"

AfterTunBranch(e) == IF ready[e].sock THEN "sock_read_len" ELSE "select"

\* write(server_fd, buffer, nread); only a result < 0 is tested.
WritePayload(e) ==
  /\ pc[e] = "write_payload"
  /\ UNCHANGED otherVars
  /\ \/ /\ sent' = SockWrite(e, buffer[e], nread[e])
        /\ pc' = [pc EXCEPT ![e] = AfterTunBranch(e)]
        /\ DeadLocals(e)
        /\ UNCHANGED <<exitCause, faults>>
     \/ /\ \E k \in 1..(nread[e] - 1) : sent' = SockWrite(e, buffer[e], k)
        /\ pc' = [pc EXCEPT ![e] = AfterTunBranch(e)]
        /\ DeadLocals(e)
        /\ Fault("short_write")
        /\ UNCHANGED exitCause
     \/ \* write < 0
        /\ Break(e, "write_payload")
        /\ Fault("error")
        /\ UNCHANGED sent
     \/ \* a write of no bytes sends nothing and raises nothing
        /\ nread[e] > 0 /\ PeerReset(e)
        /\ Killed(e)
        /\ UNCHANGED <<sent, faults>>
  /\ UNCHANGED <<nopen, nclose, exitStatus, conn, tunIn, tunOut, consumed>>

\* nread = read(server_fd, &packet_len, sizeof(packet_len)); packet_len = ntohs(packet_len).
\* read() returns what has arrived, at most the 2 bytes asked for; with one byte read
\* the second byte of the uninitialised packet_len is whatever the stack held.
SockReadLen(e) ==
  /\ pc[e] = "sock_read_len"
  /\ UNCHANGED otherVars
  /\ \/ /\ Len(wire(e)) >= 2
        /\ Locals(e, NoFds, <<>>, 2, ntohs(Take(wire(e), 2)))
        /\ consumed' = [consumed EXCEPT ![e] = @ + 2]
        /\ pc' = [pc EXCEPT ![e] = "sock_read_payload"]
        /\ UNCHANGED <<exitCause, faults>>
     \/ /\ Len(wire(e)) >= 1
        /\ \E g \in GarbageBytes : Locals(e, NoFds, <<>>, 1, ntohs(<<wire(e)[1], g>>))
        /\ consumed' = [consumed EXCEPT ![e] = @ + 1]
        /\ pc' = [pc EXCEPT ![e] = "sock_read_payload"]
        /\ UNCHANGED <<exitCause, faults>>
     \/ \* nread == 0: end of stream
        /\ wire(e) = <<>> /\ PeerGone(e)
        /\ Break(e, "len_eof")
        /\ UNCHANGED <<consumed, faults>>
     \/ \* nread < 0
        /\ Break(e, "len_error")
        /\ Fault("error")
        /\ UNCHANGED consumed
  /\ UNCHANGED <<nopen, nclose, exitStatus, conn, tunIn, tunOut, sent>>

\* nread = read(server_fd, buffer, packet_len), which returns what has arrived, at most
\* packet_len bytes, and 0 at once for a count of 0; xor_crypt(buffer, nread, XOR_KEY);
\* write(tun_fd, buffer, nread).
SockReadPayload(e) ==
  /\ pc[e] = "sock_read_payload"
  /\ UNCHANGED otherVars
  /\ \/ /\ packet_len[e] > 0
        /\ \E k \in 1..Min(packet_len[e], Len(wire(e))) :
             /\ tunOut' = [tunOut EXCEPT ![e] =
                             Append(@, [data |-> xor_crypt(Take(wire(e), k), k, XOR_KEY),
                                        off |-> consumed[e]])]
             /\ consumed' = [consumed EXCEPT ![e] = @ + k]
        /\ pc' = [pc EXCEPT ![e] = "select"]
        /\ DeadLocals(e)
        /\ UNCHANGED <<exitCause, faults>>
     \/ \* nread == 0 because the count was 0
        /\ packet_len[e] = 0
        /\ Break(e, "payload_count0")
        /\ UNCHANGED <<tunOut, consumed, faults>>
     \/ \* nread == 0: end of stream
        /\ packet_len[e] > 0 /\ wire(e) = <<>> /\ PeerGone(e)
        /\ Break(e, "payload_eof")
        /\ UNCHANGED <<tunOut, consumed, faults>>
     \/ \* nread < 0
        /\ Break(e, "payload_error")
        /\ Fault("error")
        /\ UNCHANGED <<tunOut, consumed>>
     \/ \* the payload was read and write(tun_fd) < 0
        /\ packet_len[e] > 0
        /\ \E k \in 1..Min(packet_len[e], Len(wire(e))) :
             consumed' = [consumed EXCEPT ![e] = @ + k]
        /\ Break(e, "tun_write")
        /\ Fault("error")
        /\ UNCHANGED tunOut
  /\ UNCHANGED <<nopen, nclose, exitStatus, conn, tunIn, sent>>

\* ---------------------------------------------------------- main(): cleanup
\* client: close(server_fd); close(tun_fd); return 0.
\* server: close(client_fd); close(server_fd); close(tun_fd); return 0.
CleanupAcceptAgain(e) ==
  IF e = "server"
  THEN /\ pc[e] = "cleanup"
       /\ UNCHANGED otherVars
       /\ nclose' = [nclose EXCEPT ![e]["sock"] = @ + 1]
       /\ pc' = [pc EXCEPT ![e] = "accept"]
       /\ UNCHANGED <<nopen, exitStatus, conn, loopVars, faults>>
  ELSE /\ pc[e] = "cleanup"
       /\ UNCHANGED otherVars
       /\ ExitClosing(e, {"sock", "tun"}, 0)
       /\ UNCHANGED <<nopen, conn, loopVars, faults>>

Cleanup(e) ==
  /\ pc[e] = "cleanup"
  /\ UNCHANGED otherVars
  /\ ExitClosing(e, IF e = "client" THEN {"sock", "tun"} ELSE {"sock", "listen", "tun"}, 0)
  /\ UNCHANGED <<nopen, conn, loopVars, faults>>

Next ==
  \/ \E e \in E : CheckArgs(e)
  \/ \E e \in E : create_tun_device(e)
  \/ \E e \in E : connect_to_server(e)
  \/ \E e \in E : create_server_socket(e)
  \/ \E e \in E : Accept(e)
  \/ \E e \in E : Select(e)
  \/ \E e \in E : WriteLen(e)
  \/ \E e \in E : WritePayload(e)
  \/ \E e \in E : SockReadLen(e)
  \/ \E e \in E : SockReadPayload(e)
  \/ \E e \in E : Cleanup(e)

Spec == Init /\ [][Next]_vars

\* ------------------------------------------- the transport branch, any stream
\* The values of a length prefix on the wire and the numbers of bytes that have
\* arrived behind it when the payload is read.
RecvLens == {0, 1, 2, BUFFER_SIZE - 1, BUFFER_SIZE, BUFFER_SIZE + 1, U16 - 1}
RecvAvail == {0, 1, 2, BUFFER_SIZE - 1, BUFFER_SIZE, BUFFER_SIZE + 1, U16 - 1}

RecvInit ==
  /\ rx \in [stage : {"read_len"}, prefix : {htons(n) : n \in RecvLens}, avail : RecvAvail,
             packet_len : {0}, nread : {0}, stored : {0}, result : {"none"}]
  /\ EngineInit /\ CipherIdle /\ FrameIdle /\ LoopsIdle

\* nread = read(server_fd, &packet_len, sizeof(packet_len)); packet_len = ntohs(packet_len).
RecvReadLen ==
  /\ rx.stage = "read_len"
  /\ rx' = [rx EXCEPT !.stage = "read_payload", !.nread = 2, !.packet_len = ntohs(rx.prefix)]
  /\ UNCHANGED <<engineVars, cipherVars, frameVars, foreign, wdone, loops>>

\* unsigned char buffer[BUFFER_SIZE]; nread = read(server_fd, buffer, packet_len):
\* the kernel copies what has arrived, at most packet_len bytes, to buffer, whatever
\* the size of the array. Past BUFFER_SIZE the write runs over the stack frame, and
\* the process either goes on to write(tun_fd) or is terminated.
RecvReadPayload ==
  /\ rx.stage = "read_payload"
  /\ LET n == Min(rx.packet_len, rx.avail)
     IN  \E res \in IF n <= 0 THEN {"disconnected"}
                    ELSE IF n > BUFFER_SIZE THEN {"written", "crashed"}
                    ELSE {"written"} :
           rx' = [rx EXCEPT !.stage = "done", !.nread = n, !.stored = n, !.result = res]
  /\ UNCHANGED <<engineVars, cipherVars, frameVars, foreign, wdone, loops>>

RecvNext ==
  \/ RecvReadLen
  \/ RecvReadPayload

SpecRecv == RecvInit /\ [][RecvNext]_vars

\* ------------------------------------------- a transport with bounded buffers
\* Room left for the bytes e sends: what e has written and its peer has not read
\* yet fills the buffers between them.
Space(e) == TransportCap - (Len(sent[e]) - consumed[Peer(e)])

\* The sockets are blocking: write(fd, bytes, n) returns when all n bytes are queued.
\* While the buffers are full the process sleeps inside the call; each time there is
\* room the kernel takes as many of the remaining bytes as fit.
BlockingWrite(e, bytes, n) ==
  LET k == Min(n - wdone[e], Space(e))
  IN  /\ k > 0 \/ n = 0
      /\ sent' = SockWrite(e, Drop(Take(bytes, n), wdone[e]), k)
      /\ wdone' = [wdone EXCEPT ![e] = IF @ + k = n THEN 0 ELSE @ + k]

WriteReturns(e, n) == wdone[e] + Min(n - wdone[e], Space(e)) = n

\* write(server_fd, &packet_len, sizeof(packet_len)) on the bounded transport.
WriteLenBlocking(e) ==
  /\ pc[e] = "write_len"
  /\ UNCHANGED <<cipherVars, frameVars, foreign, rx, loops>>
  /\ \/ /\ BlockingWrite(e, htons(nread[e]), 2)
        /\ pc' = [pc EXCEPT ![e] = IF WriteReturns(e, 2) THEN "write_payload" ELSE @]
        /\ UNCHANGED <<faults, exitCause, ready, buffer, nread, packet_len>>
     \/ \* write < 0
        /\ Break(e, "write_len")
        /\ Fault("error")
        /\ wdone' = [wdone EXCEPT ![e] = 0]
        /\ UNCHANGED sent
     \/ /\ PeerReset(e)
        /\ Killed(e)
        /\ wdone' = [wdone EXCEPT ![e] = 0]
        /\ UNCHANGED <<sent, faults>>
  /\ UNCHANGED <<nopen, nclose, exitStatus, conn, tunIn, tunOut, consumed>>

\* write(server_fd, buffer, nread) on the bounded transport.
WritePayloadBlocking(e) ==
  /\ pc[e] = "write_payload"
  /\ UNCHANGED <<cipherVars, frameVars, foreign, rx, loops>>
  /\ \/ /\ BlockingWrite(e, buffer[e], nread[e])
        /\ IF WriteReturns(e, nread[e])
           THEN pc' = [pc EXCEPT ![e] = AfterTunBranch(e)] /\ DeadLocals(e)
           ELSE UNCHANGED <<pc, ready, buffer, nread, packet_len>>
        /\ UNCHANGED <<exitCause, faults>>
     \/ \* write < 0
        /\ Break(e, "write_payload")
        /\ Fault("error")
        /\ wdone' = [wdone EXCEPT ![e] = 0]
        /\ UNCHANGED sent
     \/ /\ nread[e] > 0 /\ PeerReset(e)
        /\ Killed(e)
        /\ wdone' = [wdone EXCEPT ![e] = 0]
        /\ UNCHANGED <<sent, faults>>
  /\ UNCHANGED <<nopen, nclose, exitStatus, conn, tunIn, tunOut, consumed>>

NextBounded ==
  \/ \E e \in E : CheckArgs(e)
  \/ \E e \in E : create_tun_device(e)
  \/ \E e \in E : connect_to_server(e)
  \/ \E e \in E : create_server_socket(e)
  \/ \E e \in E : Accept(e)
  \/ \E e \in E : Select(e)
  \/ \E e \in E : WriteLenBlocking(e)
  \/ \E e \in E : WritePayloadBlocking(e)
  \/ \E e \in E : SockReadLen(e)
  \/ \E e \in E : SockReadPayload(e)
  \/ \E e \in E : Cleanup(e)

SpecBounded == Init /\ [][NextBounded]_vars

\* ----------------------------------------- the two loops on the same results
\* read(fd, buffer, n) puts its bytes at the start of buffer; what lay behind stays.
Overlay(buf, data) == data \o (IF Len(data) >= Len(buf) THEN <<>> ELSE Drop(buf, Len(data)))

\* What a system call of the loop can return: the count n, for select the descriptors
\* left in read_fds, for a read the bytes.
Result(n, t, k, d) == [n |-> n, tun |-> t, sock |-> k, data |-> d]
RoleBytes == {0, 66}
RolePrefixBytes == {0, 2}
RoleData == SeqsUpTo(RoleBytes, MaxLen)
RoleResults(at, c, v) ==
  CASE at = "select" ->
         {Result(-1, FALSE, FALSE, <<>>)} \cup
         {Result(1, t, k, <<>>) : t \in BOOLEAN, k \in BOOLEAN}
    [] at = "tun_read" ->
         {Result(-1, FALSE, FALSE, <<>>)} \cup {Result(Len(d), FALSE, FALSE, d) : d \in RoleData}
    [] at = "write_len" -> {Result(n, FALSE, FALSE, <<>>) : n \in {-1, 1, 2}}
    [] at \in {"write_payload", "tun_write"} ->
         {Result(n, FALSE, FALSE, <<>>) : n \in {-1} \cup 0..c.nread}
    [] at = "sock_read_len" ->
         {Result(n, FALSE, FALSE, <<>>) : n \in {-1, 0}} \cup
         {Result(Len(d), FALSE, FALSE, d) :
            d \in {<<a>> : a \in RolePrefixBytes} \cup (RolePrefixBytes \X RolePrefixBytes)}
    [] at = "sock_read_payload" ->
         {Result(n, FALSE, FALSE, <<>>) : n \in {-1, 0}} \cup
         {Result(Len(d), FALSE, FALSE, d) :
            d \in {x \in RoleData : Len(x) >= 1 /\ Len(x) <= Min(c.packet_len, v.packet_len)}}
    [] OTHER -> {}

\* simple_vpn_client.c, vpn_event_loop(tun_fd, server_fd): the next system call of
\* the loop with result r; g is the byte packet_len keeps when read() fills one byte.
client_vpn_event_loop(L, r, g) ==
  CASE L.pc = "select" ->
         [L EXCEPT !.op = [call |-> "select", fd |-> "tun_fd, server_fd", bytes |-> <<>>],
                   !.ready = [tun |-> r.tun, sock |-> r.sock],
                   !.pc = IF r.n < 0 THEN "returned"
                          ELSE IF r.tun THEN "tun_read"
                          ELSE IF r.sock THEN "sock_read_len" ELSE "select"]
    [] L.pc = "tun_read" ->
         [L EXCEPT !.op = [call |-> "read", fd |-> "tun_fd", bytes |-> r.data],
                   !.nread = r.n,
                   !.buffer = IF r.n < 0 THEN @ ELSE xor_crypt(Overlay(@, r.data), r.n, XOR_KEY),
                   !.pc = IF r.n < 0 THEN "returned" ELSE "write_len"]
    [] L.pc = "write_len" ->
         [L EXCEPT !.op = [call |-> "write", fd |-> "server_fd", bytes |-> htons(L.nread)],
                   !.pc = IF r.n < 0 THEN "returned" ELSE "write_payload"]
    [] L.pc = "write_payload" ->
         [L EXCEPT !.op = [call |-> "write", fd |-> "server_fd", bytes |-> Take(L.buffer, L.nread)],
                   !.pc = IF r.n < 0 THEN "returned"
                          ELSE IF L.ready.sock THEN "sock_read_len" ELSE "select"]
    [] L.pc = "sock_read_len" ->
         [L EXCEPT !.op = [call |-> "read", fd |-> "server_fd", bytes |-> r.data],
                   !.nread = r.n,
                   !.packet_len = IF r.n <= 0 THEN @
                                  ELSE IF r.n = 2 THEN ntohs(r.data) ELSE ntohs(<<r.data[1], g>>),
                   !.pc = IF r.n <= 0 THEN "returned" ELSE "sock_read_payload"]
    [] L.pc = "sock_read_payload" ->
         [L EXCEPT !.op = [call |-> "read", fd |-> "server_fd", bytes |-> r.data],
                   !.nread = r.n,
                   !.buffer = IF r.n <= 0 THEN @ ELSE xor_crypt(Overlay(@, r.data), r.n, XOR_KEY),
                   !.pc = IF r.n <= 0 THEN "returned" ELSE "tun_write"]
    [] L.pc = "tun_write" ->
         [L EXCEPT !.op = [call |-> "write", fd |-> "tun_fd", bytes |-> Take(L.buffer, L.nread)],
                   !.pc = IF r.n < 0 THEN "returned" ELSE "select"]
    [] OTHER -> L

\* A server loop that takes a short write of the payload for a failure.
server_vpn_event_loop_strict(L, r, g) ==
  IF L.pc = "write_payload" /\ r.n < L.nread
  THEN [L EXCEPT !.op = [call |-> "write", fd |-> "client_fd", bytes |-> Take(L.buffer, L.nread)],
                 !.pc = "returned"]
  ELSE client_vpn_event_loop(L, r, g)

\* simple_vpn_server.c, vpn_event_loop(tun_fd, client_fd).
server_vpn_event_loop(L, r, g) ==
  CASE L.pc = "select" ->
         [L EXCEPT !.op = [call |-> "select", fd |-> "tun_fd, client_fd", bytes |-> <<>>],
                   !.ready = [tun |-> r.tun, sock |-> r.sock],
                   !.pc = IF r.n < 0 THEN "returned"
                          ELSE IF r.tun THEN "tun_read"
                          ELSE IF r.sock THEN "sock_read_len" ELSE "select"]
    [] L.pc = "tun_read" ->
         [L EXCEPT !.op = [call |-> "read", fd |-> "tun_fd", bytes |-> r.data],
                   !.nread = r.n,
                   !.buffer = IF r.n < 0 THEN @ ELSE xor_crypt(Overlay(@, r.data), r.n, XOR_KEY),
                   !.pc = IF r.n < 0 THEN "returned" ELSE "write_len"]
    [] L.pc = "write_len" ->
         [L EXCEPT !.op = [call |-> "write", fd |-> "client_fd", bytes |-> htons(L.nread)],
                   !.pc = IF r.n < 0 THEN "returned" ELSE "write_payload"]
    [] L.pc = "write_payload" ->
         [L EXCEPT !.op = [call |-> "write", fd |-> "client_fd", bytes |-> Take(L.buffer, L.nread)],
                   !.pc = IF r.n < 0 THEN "returned"
                          ELSE IF L.ready.sock THEN "sock_read_len" ELSE "select"]
    [] L.pc = "sock_read_len" ->
         [L EXCEPT !.op = [call |-> "read", fd |-> "client_fd", bytes |-> r.data],
                   !.nread = r.n,
                   !.packet_len = IF r.n <= 0 THEN @
                                  ELSE IF r.n = 2 THEN ntohs(r.data) ELSE ntohs(<<r.data[1], g>>),
                   !.pc = IF r.n <= 0 THEN "returned" ELSE "sock_read_payload"]
    [] L.pc = "sock_read_payload" ->
         [L EXCEPT !.op = [call |-> "read", fd |-> "client_fd", bytes |-> r.data],
                   !.nread = r.n,
                   !.buffer = IF r.n <= 0 THEN @ ELSE xor_crypt(Overlay(@, r.data), r.n, XOR_KEY),
                   !.pc = IF r.n <= 0 THEN "returned" ELSE "tun_write"]
    [] L.pc = "tun_write" ->
         [L EXCEPT !.op = [call |-> "write", fd |-> "tun_fd", bytes |-> Take(L.buffer, L.nread)],
                   !.pc = IF r.n < 0 THEN "returned" ELSE "select"]
    [] OTHER -> L

RolesInit ==
  /\ loops = [e \in E |-> LoopLocals("select")]
  /\ EngineInit /\ CipherIdle /\ FrameIdle /\ RecvIdle

\* Both loops make their next system call and get the same result; the byte an
\* incomplete read leaves unset in packet_len is each process's own.
RolesStep ==
  /\ \E r \in RoleResults(loops["client"].pc, loops["client"], loops["server"]) :
       \E gc \in GarbageBytes, gs \in GarbageBytes :
         loops' = [e \in E |-> IF e = "client"
                               THEN client_vpn_event_loop(loops[e], r, gc)
                               ELSE server_vpn_event_loop(loops[e], r, gs)]
  /\ UNCHANGED <<engineVars, cipherVars, frameVars, foreign, rx, wdone>>

SpecRoles == RolesInit /\ [][RolesStep]_vars

\* ------------------------------------------------- other hosts at the port
\* Another host connects to the server's port after accept() has returned. While the
\* listening socket is open the kernel completes the handshake and keeps the
\* connection in the backlog of listen(sock_fd, 5); main() never calls accept()
\* again, so nothing takes it out. Once the listening socket is closed (or the
\* process is gone) the attempt is refused.
ForeignConnect ==
  /\ nopen["server"]["sock"] = 1
  /\ foreign.queued + foreign.refused < MaxForeign
  /\ foreign' = IF Listening /\ pc["server"] # "killed"
                THEN [foreign EXCEPT !.queued = @ + 1]
                ELSE [foreign EXCEPT !.refused = @ + 1]
  /\ UNCHANGED <<engineVars, cipherVars, frameVars, rx, wdone, loops>>

NextPeers ==
  \/ Next
  \/ ForeignConnect

SpecPeers == Init /\ [][NextPeers]_vars

\* --------------------------------------------------------------- SpecCipher
\* xor_crypt on every key, every one-byte buffer and the buffers over SampleBytes,
\* with every len up to the buffer's length.
SampleBytes == {0, 1, 66, 128, 255}
CipherBuffers == SeqsUpTo(SampleBytes, CipherMaxLen) \cup {<<b>> : b \in 0..(U8 - 1)}

CipherInit ==
  /\ cin \in CipherBuffers
  /\ clen \in 0..Len(cin)
  /\ ckey \in 0..(U8 - 1)
  /\ cbuf = cin
  /\ cstage = "plain"
  /\ EngineInit /\ FrameIdle /\ RecvIdle /\ LoopsIdle

\* One call xor_crypt(buffer, len, key) on the buffer as the last call left it.
CipherApply ==
  /\ cstage \in {"plain", "once"}
  /\ cbuf' = xor_crypt(cbuf, clen, ckey)
  /\ cstage' = IF cstage = "plain" THEN "once" ELSE "twice"
  /\ UNCHANGED <<cin, clen, ckey, engineVars, frameVars, foreign, rx, wdone, loops>>

SpecCipher == CipherInit /\ [][CipherApply]_vars

\* ---------------------------------------------------------------- SpecFrame
\* One packet from the sender's interface to the receiver's, by the statements of
\* vpn_event_loop in order, every write taken whole and the stream read once all of
\* it has arrived.
FramePacket(n, seed) == [i \in 1..n |-> (i * 7 + seed) % U8]
FrameLens == {0, 1, 2, BUFFER_SIZE - 1, BUFFER_SIZE, BUFFER_SIZE + 1, U16 - 1, U16, U16 + 1}

\* The packet waiting on the sender's interface.
FramePkt == FramePacket(fpkt.len, fpkt.seed)

FrameInit ==
  /\ fpkt \in [len : FrameLens, seed : 1..FrameSeeds]
  /\ fstage = "tun_read"
  /\ fbuf = <<>> /\ fnread = 0 /\ fstream = <<>> /\ flen = 0
  /\ fenc = <<>> /\ fout = <<>> /\ fresult = "none"
  /\ EngineInit /\ CipherIdle /\ RecvIdle /\ LoopsIdle

\* nread = read(tun_fd, buffer, BUFFER_SIZE); xor_crypt(buffer, nread, XOR_KEY).
FrameTunRead ==
  /\ fstage = "tun_read"
  /\ fnread' = Len(TunReadResult(FramePkt))
  /\ fbuf' = xor_crypt(TunReadResult(FramePkt), Len(TunReadResult(FramePkt)), XOR_KEY)
  /\ fstage' = "write"
  /\ UNCHANGED <<fpkt, fstream, flen, fenc, fout, fresult, engineVars, cipherVars, foreign, rx, wdone, loops>>

\* packet_len = htons(nread); write(server_fd, &packet_len, 2); write(server_fd, buffer, nread).
FrameWrite ==
  /\ fstage = "write"
  /\ fstream' = htons(fnread) \o Take(fbuf, fnread)
  /\ fenc' = Take(fbuf, fnread)
  /\ fbuf' = <<>> /\ fnread' = 0
  /\ fstage' = "read_len"
  /\ UNCHANGED <<fpkt, flen, fout, fresult, engineVars, cipherVars, foreign, rx, wdone, loops>>

\* nread = read(client_fd, &packet_len, 2); packet_len = ntohs(packet_len).
FrameReadLen ==
  /\ fstage = "read_len"
  /\ fnread' = 2
  /\ flen' = ntohs(Take(fstream, 2))
  /\ fstream' = Drop(fstream, 2)
  /\ fstage' = "read_payload"
  /\ UNCHANGED <<fpkt, fbuf, fenc, fout, fresult, engineVars, cipherVars, foreign, rx, wdone, loops>>

\* nread = read(client_fd, buffer, packet_len); if (nread <= 0) break;
\* xor_crypt(buffer, nread, XOR_KEY); write(tun_fd, buffer, nread).
FrameReadPayload ==
  /\ fstage = "read_payload"
  /\ fnread' = Min(flen, Len(fstream))
  /\ fbuf' = Take(fstream, fnread')
  /\ fstream' = Drop(fstream, fnread')
  /\ IF fnread' <= 0
     THEN fresult' = "disconnected" /\ fout' = <<>>
     ELSE fresult' = "written" /\ fout' = xor_crypt(fbuf', fnread', XOR_KEY)
  /\ fstage' = "done"
  /\ UNCHANGED <<fpkt, flen, fenc, engineVars, cipherVars, foreign, rx, wdone, loops>>

FrameNext ==
  \/ FrameTunRead
  \/ FrameWrite
  \/ FrameReadLen
  \/ FrameReadPayload

SpecFrame == FrameInit /\ [][FrameNext]_vars

\* ------------------------------------------------------------------- claims
IsPrefix(a, b) == Len(a) <= Len(b) /\ a = Take(b, Len(a))

\* The packets a process has written to its interface, in order.
Data(e) == [j \in 1..Len(tunOut[e]) |-> tunOut[e][j].data]

\* The frame of packet p: its length, big-endian, then its bytes under the key.
FrameHeader(p) == htons(Len(p))
PayloadOf == [p \in Packets |-> xor_crypt(p, Len(p), XOR_KEY)]
FramePayload(p) == PayloadOf[p]

RECURSIVE Frames(_)
Frames(pkts) ==
  IF pkts = <<>> THEN <<>>
  ELSE FrameHeader(Head(pkts)) \o FramePayload(Head(pkts)) \o Frames(Tail(pkts))

\* Where the frame of the i-th packet ends in the stream Frames(pkts).
RECURSIVE FrameEnd(_, _)
FrameEnd(pkts, i) == IF i = 0 THEN 0 ELSE FrameEnd(pkts, i - 1) + 2 + Len(pkts[i])

\* C1: with no failed or short system call, what a process has written to its
\* interface is, packet by packet and in order, what the peer has read from its own:
\* nothing is split, merged, duplicated or changed.
C1_EndToEndRelay ==
  \A e \in E : NFaults = 0 => IsPrefix(Data(e), tunIn[Peer(e)])

\* C2: the payload the receiver gets out of the stream is the payload the sender
\* framed, for every packet the sender can frame.
C2_FramingRoundTrip ==
  fstage = "done" => (fresult = "written" /\ fbuf = fenc)

\* C3: xor_crypt applied twice with the same key and len gives the buffer back.
C3_CipherInvolution ==
  cstage = "twice" => cbuf = cin

C3_Witness ==
  /\ cstage = "twice" /\ cbuf = cin
  /\ Len(cin) = 2 /\ clen = 2 /\ ckey = XOR_KEY /\ cin[1] # cin[2]

\* C4: with no failed or short system call, every packet a process writes to its
\* interface is the whole payload of one frame of the peer's stream, and each read of
\* a length prefix starts where a frame starts.
C4_WholeFrames ==
  \A e \in E :
    NFaults = 0 =>
      /\ \A j \in DOMAIN tunOut[e] :
           \E i \in DOMAIN tunIn[Peer(e)] :
             /\ tunOut[e][j].off = FrameEnd(tunIn[Peer(e)], i - 1) + 2
             /\ Len(tunOut[e][j].data) = Len(tunIn[Peer(e)][i])
      /\ pc[e] = "sock_read_len" =>
           \E i \in 0..Len(tunIn[Peer(e)]) : consumed[e] = FrameEnd(tunIn[Peer(e)], i)

\* A process has read, as the first two bytes of the stream, the whole length prefix
\* of the frame its peer made of an empty packet.
ReadEmptyFrame(e) ==
  /\ consumed[e] = 2 /\ tunOut[e] = <<>>
  /\ tunIn[Peer(e)] # <<>> /\ Head(tunIn[Peer(e)]) = <<>>
  /\ Take(sent[Peer(e)], 2) = FrameHeader(<<>>)

\* C5: a frame of declared length 0 does not end the session.
C5_EmptyFrameKeepsSession ==
  \A e \in E : ReadEmptyFrame(e) => exitCause[e] # "payload_count0"

\* C6: a packet of 65535 bytes reaches the peer's interface whole and unchanged.
C6_MaxSizePacket ==
  (fstage = "done" /\ fpkt.len = U16 - 1) => (fresult = "written" /\ fout = FramePkt)

\* The read() that found the peer's end closed and nothing left to read.
DisconnectObserved(e) == exitCause[e] \in {"len_eof", "payload_eof"}

\* A read() of the transport that will find it closed and drained.
AtEndOfStream(e) ==
  /\ PeerGone(e) /\ wire(e) = <<>>
  /\ \/ pc[e] = "sock_read_len"
     \/ pc[e] = "sock_read_payload" /\ packet_len[e] > 0

TruncatedAtClose(e) ==
  /\ pc[e] = "sock_read_payload" /\ nread[e] = 2 /\ consumed[e] = 2
  /\ tunIn[Peer(e)] # <<>>
  /\ Take(sent[Peer(e)], 2) = FrameHeader(Head(tunIn[Peer(e)]))
  /\ packet_len[e] = Len(Head(tunIn[Peer(e)]))
  /\ pc[Peer(e)] = "exited" /\ PeerGone(e)
  /\ Len(wire(e)) > 0 /\ Len(wire(e)) < packet_len[e]

\* C8: when the stream ends inside a frame, nothing of that frame is written to the
\* interface.
C8_TruncatedFrameDropped ==
  [][\A e \in E : TruncatedAtClose(e) => tunOut'[e] = tunOut[e]]_vars

\* The stream is, packet by packet in the order of pkts, some of the bytes of the
\* length prefix and then some of the bytes of the payload of that packet's frame.
RECURSIVE InPacketOrder(_, _)
InPacketOrder(stream, pkts) ==
  IF pkts = <<>> THEN stream = <<>>
  ELSE LET h == FrameHeader(Head(pkts))
           c == FramePayload(Head(pkts))
           Part(a, b) ==
             /\ a + b <= Len(stream)
             /\ Take(stream, a + b) = Take(h, a) \o Take(c, b)
             /\ InPacketOrder(Drop(stream, a + b), Tail(pkts))
       IN  \/ Part(2, Len(c))
           \/ \E a \in 0..2, b \in 0..Len(c) : Part(a, b)

\* A byte of the stream with the key taken off.
Plain == [b \in 0..(U8 - 1) |-> XorByte(b, XOR_KEY)]

\* What a process wrote to its interface is, write by write, the next stretch of the
\* peer's stream under the key: no stretch before an earlier one, none overlapping.
InStreamOrder(e) ==
  \A j \in DOMAIN tunOut[e] :
    LET t == tunOut[e][j]
        n == Len(t.data)
    IN  /\ t.off >= 0 /\ t.off + n <= consumed[e]
        /\ t.data = [i \in 1..n |-> Plain[sent[Peer(e)][t.off + i]]]
        /\ j > 1 => tunOut[e][j - 1].off + Len(tunOut[e][j - 1].data) <= t.off

\* C9: in every interleaving, the bytes a process puts on the transport follow the
\* order in which it read the packets from its interface, and the packets it writes to
\* its interface follow the order of the stream.
C9_PerDirectionOrder ==
  \A e \in E : InPacketOrder(sent[e], tunIn[e]) /\ InStreamOrder(e)

\* Packet A read from the client's interface and delivered, frame B received by the
\* client, then packet C read from the client's interface.
C9_Witness ==
  /\ pc["client"] = "write_len"
  /\ tunIn["client"] = <<PacketOfLen(MaxLen), PacketOfLen(MaxLen)>>
  /\ tunIn["server"] = <<PacketOfLen(MaxLen)>>
  /\ Data("client") = <<PacketOfLen(MaxLen)>>
  /\ Data("server") = <<PacketOfLen(MaxLen)>>

\* C10: whenever a process has finished the writes of a frame, what it has put on the
\* transport is the frames of the packets it read, each declared length followed by
\* that many payload bytes.
C10_FramesWellFormed ==
  \A e \in E :
    pc[e] \in {"select", "sock_read_len", "sock_read_payload"} =>
      sent[e] = Frames(tunIn[e])

\* The pc values inside while (1) of vpn_event_loop.
LoopPcs == {"select", "write_len", "write_payload", "sock_read_len", "sock_read_payload"}

\* The step is a system call of e, inside the loop, that failed or wrote short.
FailedCall(e) ==
  /\ pc[e] \in LoopPcs /\ pc'[e] # pc[e]
  /\ faults'["error"] + faults'["short_write"] > NFaults

\* C11: every system call of the loop that fails, or writes fewer bytes than asked
\* for, makes the process leave the loop at once, on the way to closing its handles.
C11_FailurePropagation ==
  [][\A e \in E : FailedCall(e) => pc'[e] = "cleanup"]_vars

\* The process has ended after its loop ran.
EndedAfterRunning(e) == pc[e] \in {"exited", "killed"} /\ exitCause[e] # "none"

\* C12: a process that has left the loop, on whichever path, ends with one close()
\* for every handle it opened.
C12_ReleaseExactlyOnce ==
  \A e \in E :
    EndedAfterRunning(e) => \A h \in H : nopen[e][h] = 1 => nclose[e][h] = 1

\* The state of the session of a process at pc value p that left its loop, if it
\* did, by cause c. A process that exits during setup never had a session.
PhaseOf(p, c) ==
  CASE p \in LoopPcs -> "RUNNING"
    [] p = "cleanup" -> "CLOSING"
    [] p = "killed" -> "CLOSED"
    [] p = "exited" -> IF c = "none" THEN "NO_SESSION" ELSE "CLOSED"
    [] OTHER -> "SETUP"

Phase(e) == PhaseOf(pc[e], exitCause[e])

PhaseMoves ==
  {<<"SETUP", "RUNNING">>, <<"RUNNING", "CLOSING">>, <<"CLOSING", "CLOSED">>,
   <<"SETUP", "NO_SESSION">>}

\* C13: the session goes SETUP, RUNNING, CLOSING, CLOSED and no other way; it is
\* RUNNING only with the interface and the transport open; a CLOSED session does
\* nothing more.
C13_Lifecycle ==
  /\ [](\A e \in E :
          Phase(e) = "RUNNING" =>
            \A h \in {"tun", "sock"} : nopen[e][h] = 1 /\ nclose[e][h] = 0)
  /\ [][\A e \in E :
          /\ PhaseOf(pc'[e], exitCause'[e]) # Phase(e) =>
               <<Phase(e), PhaseOf(pc'[e], exitCause'[e])>> \in PhaseMoves
          /\ Phase(e) = "CLOSED" =>
               /\ pc'[e] = pc[e] /\ sent'[e] = sent[e] /\ tunOut'[e] = tunOut[e]
               /\ tunIn'[e] = tunIn[e] /\ consumed'[e] = consumed[e]]_vars

\* The process ended in main() before its loop was entered.
SetupFailed(e) == pc[e] = "exited" /\ exitCause[e] = "none"

\* C14: a process that ends during setup ends with a status other than 0; a process
\* that left its loop on the peer's disconnect ends with status 0, the transport and
\* the interface closed; no status is set before the process ends.
C14_ExitStatus ==
  \A e \in E :
    /\ SetupFailed(e) => exitStatus[e] > 0
    /\ (pc[e] = "exited" /\ DisconnectObserved(e)) =>
         /\ exitStatus[e] = 0
         /\ nclose[e]["sock"] = 1 /\ nclose[e]["tun"] = 1
    /\ pc[e] # "exited" => exitStatus[e] = -1

\* The server failed in accept and ended with status 1; the client, connected to the
\* listening socket, read the end of the stream and ended with status 0.
C14_Witness ==
  /\ SetupFailed("server") /\ nopen["server"]["listen"] = 1 /\ exitStatus["server"] = 1
  /\ pc["client"] = "exited" /\ exitCause["client"] = "len_eof"
  /\ exitStatus["client"] = 0

\* C15: at every read of the interface, what the process has put on the transport is
\* one whole frame, length prefix and complete payload, for each packet it read before.
C15_NoBatching ==
  [][\A e \in E : Len(tunIn'[e]) > Len(tunIn[e]) => sent[e] = Frames(tunIn[e])]_vars
\* The bytes the server handed to its interface in the step, as seen on the wire.
ServerTunWrite ==
  LET n == Len(tunOut'["server"])
      last == tunOut'["server"][n]
      k == Len(last.data)
  IN  /\ n = Len(tunOut["server"]) + 1
      /\ last.off = consumed["server"]
      /\ consumed'["server"] = consumed["server"] + k
      /\ last.data = [i \in 1..k |-> XorByte(sent["client"][last.off + i], XOR_KEY)]

\* C16: the server accepts exactly one inbound connection: accept() returns once and
\* is never reached again, a connection attempt of another host during the session
\* or after it stays in the backlog or is refused, and every byte the server writes
\* to its interface was read from the one accepted connection.
C16_SinglePeer ==
  /\ [](nopen["server"]["sock"] <= 1)
  /\ [][/\ nopen["server"]["sock"] = 1 => pc'["server"] # "accept"
        /\ foreign' # foreign =>
             /\ UNCHANGED <<pc, nopen, tunOut, tunIn, sent, consumed>>
        /\ tunOut'["server"] # tunOut["server"] => ServerTunWrite]_vars

C16_Witness ==
  /\ foreign.queued = 1
  /\ pc["server"] = "exited" /\ exitStatus["server"] = 0
  /\ tunOut["server"] # <<>> /\ tunOut["client"] # <<>>

\* C17: the payload handed to the framer is at most BUFFER_SIZE bytes, hence below
\* 2^16, whatever the size of the packet on the interface, and the two bytes of
\* htons(nread) written before it are that length exactly, with nothing lost modulo
\* 2^16; no frame carries 65536 bytes or more.
C17_LengthPrefixRange ==
  fstage \in {"read_len", "read_payload", "done"} =>
    /\ Len(fenc) <= BUFFER_SIZE /\ Len(fenc) < U16
    /\ Len(fenc) = Min(fpkt.len, BUFFER_SIZE)
    /\ fstage = "read_len" =>
         /\ Len(fstream) = 2 + Len(fenc)
         /\ fstream[1] * U8 + fstream[2] = Len(fenc)
    /\ fstage # "read_len" => flen = Len(fenc)

C17_Witness ==
  /\ fstage = "read_payload" /\ fpkt.len >= U16
  /\ flen = BUFFER_SIZE /\ Len(fenc) = BUFFER_SIZE

\* e sits in the blocking read() of a payload with nothing on the wire, no fault has
\* occurred, its peer is alive and waits in select() with nothing to send, and e's own
\* interface can have a packet: nothing serves that packet until the peer sends again.
StalledInRead(e) ==
  /\ pc[e] = "sock_read_payload" /\ packet_len[e] > 0
  /\ wire(e) = <<>> /\ ~PeerGone(e)
  /\ pc[Peer(e)] = "select" /\ wire(Peer(e)) = <<>>
  /\ NFaults = 0 /\ NPkts < MaxPkts

\* C18: neither direction is starved: a RUNNING process is never held in a read of
\* the transport for bytes that nobody is about to send while its interface has a
\* packet, also when the transport has delivered only part of a frame.
C18_NoStarvation == \A e \in E : ~StalledInRead(e)

\* select() returned to e with both descriptors readable.
BothReady(e) == ready[e].tun /\ ready[e].sock

\* select() can return to e with both descriptors readable.
BothCanBeReady(e) == pc[e] = "select" /\ SockReadable(e) /\ NPkts < MaxPkts

\* The wake-up of e in which both descriptors are readable goes to the transport first.
TransportFirst(e) == Select(e) /\ pc'[e] = "sock_read_len" /\ ready'[e].tun

\* C19 as stated: when both handles are ready at one wake-up the order of service is
\* not fixed, so the transport can be the one served first.
C19_NoFixedPriority ==
  \A e \in E : BothCanBeReady(e) => ENABLED TransportFirst(e)

\* C19 as the code has it: a wake-up with both handles ready serves the interface
\* first, and the transport in the same pass once the frame of the interface packet
\* is written; the transport is served first only at a wake-up where the interface
\* is not ready.
C19_InterfaceFirst ==
  /\ [](\A e \in E : BothReady(e) => pc[e] \in {"write_len", "write_payload"})
  /\ [][\A e \in E :
          /\ (pc[e] = "select" /\ pc'[e] = "sock_read_len") => ~ready'[e].tun
          /\ (BothReady(e) /\ pc[e] = "write_len" /\ pc'[e] # pc[e]) =>
               pc'[e] \in {"write_payload", "cleanup", "killed"}
          /\ (BothReady(e) /\ pc[e] = "write_payload" /\ pc'[e] # pc[e]) =>
               pc'[e] \in {"sock_read_len", "cleanup", "killed"}]_vars

C19_Witness ==
  \E e \in E : BothReady(e) /\ pc[e] = "write_payload" /\ wire(e) # <<>> /\ sent[e] # <<>>

\* The packet e read from its interface last.
LastPacket(e) == tunIn[e][Len(tunIn[e])]

\* The bytes the step added to what e has put on the transport.
Written(e) == Drop(sent'[e], Len(sent[e]))

\* The bytes the step took from the transport and the packet it gave the interface.
Received(e) == Take(wire(e), consumed'[e] - consumed[e])
Delivered(e) == tunOut'[e][Len(tunOut'[e])].data

\* C20: for the packet read from the interface, the first write that returns without
\* error puts its length on the transport as two bytes, high byte first, unciphered,
\* and the second puts exactly the packet's bytes, each XORed with the key once; on
\* the receiving side the bytes taken from the transport are XORed with the key once
\* before they go to the interface.
C20_WireFormat ==
  [][\A e \in E :
       /\ (pc[e] = "write_len" /\ pc'[e] = "write_payload") =>
            Written(e) = <<Len(LastPacket(e)) \div U8, Len(LastPacket(e)) % U8>>
       /\ (pc[e] = "write_payload" /\ pc'[e] \in {"select", "sock_read_len"}) =>
            Written(e) = [i \in 1..Len(LastPacket(e)) |-> XorByte(LastPacket(e)[i], XOR_KEY)]
       /\ Len(tunOut'[e]) > Len(tunOut[e]) =>
            Delivered(e) = [i \in 1..Len(Received(e)) |-> XorByte(Received(e)[i], XOR_KEY)]]_vars

\* The step is a system call of e that returned an error.
ErrorReturned == faults'["error"] > faults["error"]

\* e's transport is at end of stream with everything read, or a write on it raises
\* SIGPIPE: the peer's disconnect as e's handle shows it.
DisconnectShown(e) == (PeerGone(e) /\ wire(e) = <<>>) \/ PeerReset(e)

\* C21: a process leaves the loop only at a system call that returned an error or
\* at a peer disconnect seen on its transport handle, and a process waiting in
\* select() takes a step only when a handle is readable or select() fails.
C21_NoSpontaneousClose ==
  [][\A e \in E :
       /\ (pc[e] \in LoopPcs /\ pc'[e] \notin LoopPcs) =>
            ErrorReturned \/ DisconnectShown(e)
       /\ (pc[e] = "select" /\ pc'[e] # "select") =>
            SockReadable(e) \/ Len(tunIn'[e]) > Len(tunIn[e]) \/ ErrorReturned]_vars

\* The client's connect_to_server returned -1.
ConnectFailed == pc["client"] = "connect" /\ pc'["client"] # "connect" /\ ~conn'

\* C22: when connect_to_server fails the client exits at once with a non-zero
\* status, having made at most the one socket of that attempt; it is then never
\* in the loop, opens nothing more and moves no byte.
C22_ConnectFailureFinal ==
  /\ [][/\ ConnectFailed =>
             /\ pc'["client"] = "exited" /\ exitStatus'["client"] = 1
             /\ nopen'["client"]["sock"] <= 1
        /\ pc["client"] = "exited" =>
             /\ pc'["client"] = "exited"
             /\ nopen'["client"] = nopen["client"]]_vars
  /\ []((pc["client"] = "exited" /\ ~conn) =>
          /\ tunIn["client"] = <<>> /\ sent["client"] = <<>> /\ tunOut["client"] = <<>>
          /\ exitCause["client"] = "none")

C22_Witness ==
  /\ pc["client"] = "exited" /\ ~conn /\ exitStatus["client"] = 1
  /\ nopen["client"]["tun"] = 1 /\ nopen["client"]["sock"] = 1
  /\ Listening

\* Bit k of the byte x, and x = a XOR b said bit by bit.
BitOf(x, k) == (x \div k) % 2
BitWeights == {1, 2, 4, 8, 16, 32, 64, 128}
IsXorOf(x, a, b) ==
  /\ x \in 0..(U8 - 1)
  /\ \A k \in BitWeights : BitOf(x, k) = (IF BitOf(a, k) = BitOf(b, k) THEN 0 ELSE 1)

\* C23: every call of xor_crypt, the first on a buffer and the one after it alike,
\* keeps the buffer's length, turns each of its first len bytes into that byte XOR
\* key, and leaves the bytes from index len on as they were.
C23_CipherFrame ==
  [][/\ Len(cbuf') = Len(cbuf)
     /\ \A i \in 1..Len(cbuf) :
          IF i <= clen THEN IsXorOf(cbuf'[i], cbuf[i], ckey) ELSE cbuf'[i] = cbuf[i]]_vars

C23_Witness ==
  /\ cstage = "once" /\ Len(cin) = 2 /\ clen = 1 /\ ckey = XOR_KEY
  /\ cbuf[1] # cin[1] /\ cbuf[2] = cin[2] /\ cin[2] # 0

\* C24: whatever length prefix arrives, the read of the payload stores at most
\* BUFFER_SIZE bytes into buffer.
C24_ReceiveBufferBound == rx.stored <= BUFFER_SIZE

\* e sleeps in a write() to the transport: the buffers towards its peer are full
\* and the peer is there.
BlockedInWrite(e) ==
  /\ pc[e] \in {"write_len", "write_payload"}
  /\ Space(e) = 0 /\ ~PeerGone(e)
  /\ pc[e] = "write_payload" => nread[e] > 0

\* C25: with bounded buffers in each direction the two processes are never both
\* asleep in a transport write, each waiting for the other to read.
C25_DeadlockFree == ~(\A e \in E : BlockedInWrite(e))

\* The handle a system call was made on, by its role in the relay.
Handle(fd) ==
  CASE fd = "tun_fd" -> "interface"
    [] fd \in {"server_fd", "client_fd"} -> "transport"
    [] fd \in {"tun_fd, server_fd", "tun_fd, client_fd"} -> "interface, transport"
    [] OTHER -> "none"

\* C26: given the same results of select, read and write, the client's loop and the
\* server's loop are at the same statement after every system call, have made the
\* same call on the same handle with the same bytes, and hold the same nread, buffer
\* and read_fds; packet_len is the same whenever the prefix read filled both bytes.
C26_RoleEquivalence ==
  LET c == loops["client"]
      v == loops["server"]
  IN  /\ c.pc = v.pc
      /\ c.op.call = v.op.call /\ Handle(c.op.fd) = Handle(v.op.fd) /\ c.op.bytes = v.op.bytes
      /\ c.nread = v.nread /\ c.buffer = v.buffer /\ c.ready = v.ready
      /\ c.packet_len \div U8 = v.packet_len \div U8
      /\ (c.pc = "sock_read_payload" /\ c.nread = 2) => c.packet_len = v.packet_len

C26_Witness ==
  /\ loops["client"].pc = "returned" /\ loops["server"].pc = "returned"
  /\ loops["client"].op = [call |-> "write", fd |-> "tun_fd", bytes |-> <<0, 66>>]
  /\ loops["server"].op.fd = "tun_fd"
  /\ loops["client"].packet_len = 2

\* C27: a process that exits from a failed setup step has closed every handle it
\* opened exactly once, opened none twice, and never read or wrote a packet.
C27_SetupFailureReleases ==
  \A e \in E :
    SetupFailed(e) =>
      /\ \A h \in H : nopen[e][h] <= 1 /\ nclose[e][h] = nopen[e][h]
      /\ tunIn[e] = <<>> /\ sent[e] = <<>> /\ tunOut[e] = <<>> /\ consumed[e] = 0

\* accept() failed after the interface and the listening socket were opened.
C27_Witness ==
  /\ SetupFailed("server")
  /\ nopen["server"] = [h \in H |-> IF h = "sock" THEN 0 ELSE 1]
  /\ nclose["server"] = [h \in H |-> IF h = "sock" THEN 0 ELSE 1]

====
